---- MODULE Spec2Model ----
(***************************************************************************)
(* Nightscout Data integration: the refresh cycle of                       *)
(* NightscoutDataUpdateCoordinator (coordinator.py), the one-shot          *)
(* connection test of the setup wizard (config_flow.py) and the sensor     *)
(* entities' reads of the cached reading (sensor.py).                      *)
(*                                                                         *)
(* Python values are tagged records so that any two of them can be         *)
(* compared; a dict is a function from the set of its keys; an optional    *)
(* dict (coordinator.data, None before the first publication) is a         *)
(* sequence of length 0 or 1; a string whose characters matter (a URL) is  *)
(* a sequence of one-character strings.                                    *)
(***************************************************************************)
EXTENDS Integers, Sequences, FiniteSets, TLC

VARIABLES
    data,                 \* coordinator.data: <<>> for None, <<dict>> otherwise
    last_update_success,  \* coordinator.last_update_success
    pc,                   \* position of _async_update_data: idle/glucose/treatments/status
    result,               \* the local dict `result` of the running cycle
    gResp, tResp, sResp,  \* what each request of the current (or last) cycle met
    outcome,              \* how the last finished cycle ended
    prevData,             \* coordinator.data as it was when the last cycle began
    server_url,           \* coordinator.server_url / the wizard's normalised URL
    url_input,            \* the server_url string handed to the constructor
    conn,                 \* the last connection test: its two responses and its result
    hass_data,            \* hass.data[DOMAIN]: the entry ids a coordinator is stored under
    forwarded,            \* the entry ids whose setup was forwarded to the sensor platform
    setup,                \* the last run of async_setup_entry
    flow,                 \* the config flow: its step, stored URL and key, last user step
    configured,           \* unique ids (server URLs) of the existing config entries
    built                 \* the last URLs built by _get_url and by the connection test

vars == <<data, last_update_success, pc, result, gResp, tResp, sResp, outcome,
          prevData, server_url, url_input, conn,
          hass_data, forwarded, setup, flow, configured, built>>

\* the state of async_setup_entry, of the config flow and of the URL builder
entryVars == <<hass_data, forwarded, setup>>
flowVars == <<flow, configured>>

-----------------------------------------------------------------------------
(* Python values *)

None == [t |-> "none", n |-> 0, s |-> ""]
Num(i) == [t |-> "num", n |-> i, s |-> ""]
Str(x) == [t |-> "str", n |-> 0, s |-> x]
Bool(b) == [t |-> "bool", n |-> IF b THEN 1 ELSE 0, s |-> ""]

EmptyDict == [k \in {} |-> None]

\* dict.get(key): the value, or None when the key is missing
Get(d, k) == IF k \in DOMAIN d THEN d[k] ELSE None

\* dict.update(other)
Update(d, other) ==
    [k \in (DOMAIN d) \cup (DOMAIN other) |-> IF k \in DOMAIN other THEN other[k] ELSE d[k]]

\* d[key] = value
SetItem(d, k, v) == [x \in (DOMAIN d) \cup {k} |-> IF x = k THEN v ELSE d[x]]

-----------------------------------------------------------------------------
(* What one HTTP request can meet.                                         *)
(*   exc    exception raised by session.get before a status is known:      *)
(*          "none", "ClientError" (network error) or "TimeoutError" (the   *)
(*          10 s total timeout); "not_requested" when no request was made  *)
(*   status the HTTP status                                                *)
(*   kind   what reading the body gives: "text" (any text, only read for   *)
(*          the error excerpt), "readClientError"/"readTimeout" (reading    *)
(*          the body fails), "wrongContentType" (resp.json() raises         *)
(*          ContentTypeError, a ClientError), "invalidJson" (resp.json()    *)
(*          raises JSONDecodeError), or the JSON value's shape:             *)
(*          "emptylist" [], "list" [first, ...], "scalarlist" [1],          *)
(*          "emptyobject" {}, "object" {...}                                *)
(*   first  the first element of a "list", or the object of an "object"    *)
(***************************************************************************)

Resp(e, st, k, f) == [exc |-> e, status |-> st, kind |-> k, first |-> f]
NotRequested == Resp("not_requested", 0, "", EmptyDict)

Statuses == {200, 204, 304, 401, 403, 500}

Raised == {Resp(e, 0, "", EmptyDict) : e \in {"ClientError", "TimeoutError"}}

BadBodies == {"readClientError", "readTimeout", "wrongContentType", "invalidJson"}

GlucoseEntries ==
    { [sgv |-> Num(90), dateString |-> Str("t1"), direction |-> Str("Flat")],
      [sgv |-> Num(108), dateString |-> Str("t2"), direction |-> Str("SingleUp")],
      [sgv |-> Num(108)],
      EmptyDict }

Treatments ==
    { [insulin |-> Num(2), carbs |-> Num(20), rate |-> Num(1)],
      [insulin |-> Num(3)],
      EmptyDict }

StatusObjects ==
    { [status |-> Str("warn")], [status |-> Str("ok")], [status |-> Str("WARN")], EmptyDict }

GlucoseResponses ==
    Raised
    \cup {Resp("none", st, "", EmptyDict) : st \in {401, 403}}
    \cup {Resp("none", st, k, EmptyDict) :
            st \in Statuses \ {200, 401, 403}, k \in {"text", "readClientError", "readTimeout"}}
    \cup {Resp("none", 200, k, EmptyDict) :
            k \in BadBodies \cup {"emptylist", "emptyobject", "scalarlist"}}
    \cup {Resp("none", 200, "object", [message |-> Str("x")])}
    \cup {Resp("none", 200, "list", e) : e \in GlucoseEntries}

TreatmentResponses ==
    Raised
    \cup {Resp("none", st, "", EmptyDict) : st \in Statuses \ {200}}
    \cup {Resp("none", 200, k, EmptyDict) : k \in BadBodies \cup {"emptylist", "scalarlist"}}
    \cup {Resp("none", 200, "object", [message |-> Str("x")])}
    \cup {Resp("none", 200, "list", e) : e \in Treatments}

StatusResponses ==
    Raised
    \cup {Resp("none", st, "", EmptyDict) : st \in Statuses \ {200}}
    \cup {Resp("none", 200, k, EmptyDict) : k \in BadBodies \cup {"emptylist"}}
    \cup {Resp("none", 200, "object", o) : o \in StatusObjects}

-----------------------------------------------------------------------------
(* Outcome of one step of the cycle: the exception that leaves             *)
(* _async_update_data ("none" when the step falls through to the next      *)
(* request) and the `result` dict after the step.                          *)

Step(r, res) == [raise |-> r, result |-> res]

\* Python truthiness of the parsed JSON value: [] and {} are falsy
Truthy(resp) == resp.kind \in {"list", "scalarlist", "object"}

\* `await resp.json()`: "none" when it returns, else the exception it raises
JsonRaises(resp) ==
    CASE resp.kind = "readClientError" -> "ClientError"
      [] resp.kind = "wrongContentType" -> "ClientError"
      [] resp.kind = "readTimeout" -> "TimeoutError"
      [] resp.kind = "invalidJson" -> "JSONDecodeError"
      [] OTHER -> "none"

\* `await resp.text()`
TextRaises(resp) ==
    CASE resp.kind = "readClientError" -> "ClientError"
      [] resp.kind = "readTimeout" -> "TimeoutError"
      [] OTHER -> "none"

\* x[0] followed by x[0].get(...): a dict has no key 0, a number has no .get
FirstRaises(resp) ==
    CASE resp.kind = "object" -> "KeyError"
      [] resp.kind = "scalarlist" -> "AttributeError"
      [] OTHER -> "none"

\* the handler `except aiohttp.ClientError` around the whole cycle
OuterExcept(exc) == IF exc = "ClientError" THEN "UpdateFailed" ELSE exc

-----------------------------------------------------------------------------
(* coordinator.py: the three requests of _async_update_data *)

\* _process_entries(entries), entries being the parsed body of resp
ProcessEntries(resp) ==
    IF ~Truthy(resp)
    THEN EmptyDict
    ELSE [k \in {"GLUCOSE_VALUE", "TIME_VALUE", "TREND_VALUE"} |->
            CASE k = "GLUCOSE_VALUE" -> Get(resp.first, "sgv")
              [] k = "TIME_VALUE" -> Get(resp.first, "dateString")
              [] OTHER -> Get(resp.first, "direction")]

\* GlucoseStep with 403 left out of the authentication test
GlucoseStepOnly401(resp, res) ==
    IF resp.exc # "none" THEN Step(OuterExcept(resp.exc), res)
    ELSE IF resp.status = 401 THEN Step("ConfigEntryAuthFailed", res)
    ELSE IF resp.status # 200
         THEN IF TextRaises(resp) # "none"
              THEN Step(OuterExcept(TextRaises(resp)), res)
              ELSE Step("UpdateFailed", res)
    ELSE IF JsonRaises(resp) # "none" \/ (Truthy(resp) /\ FirstRaises(resp) # "none")
         THEN Step("UpdateFailed", res)
    ELSE Step("none", Update(res, ProcessEntries(resp)))

\* GlucoseStep logging a body it cannot parse and going on without glucose
GlucoseStepSwallowParse(resp, res) ==
    IF resp.exc # "none" THEN Step(OuterExcept(resp.exc), res)
    ELSE IF resp.status = 401 \/ resp.status = 403 THEN Step("ConfigEntryAuthFailed", res)
    ELSE IF resp.status # 200
         THEN IF TextRaises(resp) # "none"
              THEN Step(OuterExcept(TextRaises(resp)), res)
              ELSE Step("UpdateFailed", res)
    ELSE IF JsonRaises(resp) # "none" \/ (Truthy(resp) /\ FirstRaises(resp) # "none")
         THEN Step("none", res)
    ELSE Step("none", Update(res, ProcessEntries(resp)))

\* the glucose request: an authentication status is raised as
\* ConfigEntryAuthFailed, any other status but 200 as UpdateFailed, and
\* whatever parsing or processing raises is turned into UpdateFailed
GlucoseStep(resp, res) ==
    IF resp.exc # "none" THEN Step(OuterExcept(resp.exc), res)
    ELSE IF resp.status = 401 \/ resp.status = 403 THEN Step("ConfigEntryAuthFailed", res)
    ELSE IF resp.status # 200
         THEN IF TextRaises(resp) # "none"
              THEN Step(OuterExcept(TextRaises(resp)), res)
              ELSE Step("UpdateFailed", res)
    ELSE IF JsonRaises(resp) # "none" \/ (Truthy(resp) /\ FirstRaises(resp) # "none")
         THEN Step("UpdateFailed", res)
    ELSE Step("none", Update(res, ProcessEntries(resp)))

\* the treatment request: a status other than 200 is logged and skipped
TreatmentStep(resp, res) ==
    IF resp.exc # "none" THEN Step(OuterExcept(resp.exc), res)
    ELSE IF resp.status # 200 THEN Step("none", res)
    ELSE IF JsonRaises(resp) # "none" THEN Step(OuterExcept(JsonRaises(resp)), res)
    ELSE IF ~Truthy(resp) THEN Step("none", res)
    ELSE IF FirstRaises(resp) # "none" THEN Step(FirstRaises(resp), res)
    ELSE Step("none",
              SetItem(SetItem(SetItem(res, "IOB_VALUE", Get(resp.first, "insulin")),
                              "COB_VALUE", Get(resp.first, "carbs")),
                      "BASAL_VALUE", Get(resp.first, "rate")))

\* StatusStep with the alarm raised by any status but "ok"
StatusStepNotOk(resp, res) ==
    IF resp.exc # "none" THEN Step(OuterExcept(resp.exc), res)
    ELSE IF resp.status # 200 THEN Step("none", res)
    ELSE IF JsonRaises(resp) # "none" THEN Step(OuterExcept(JsonRaises(resp)), res)
    ELSE IF resp.kind # "object" /\ resp.kind # "emptyobject" THEN Step("AttributeError", res)
    ELSE Step("none", SetItem(res, "ALARM_VALUE", Bool(Get(resp.first, "status") # Str("ok"))))

\* the status request: a status other than 200 is logged and skipped;
\* status.get("status") == "warn" (a JSON array has no .get)
StatusStep(resp, res) ==
    IF resp.exc # "none" THEN Step(OuterExcept(resp.exc), res)
    ELSE IF resp.status # 200 THEN Step("none", res)
    ELSE IF JsonRaises(resp) # "none" THEN Step(OuterExcept(JsonRaises(resp)), res)
    ELSE IF resp.kind # "object" /\ resp.kind # "emptyobject" THEN Step("AttributeError", res)
    ELSE Step("none", SetItem(res, "ALARM_VALUE", Bool(Get(resp.first, "status") = Str("warn"))))

-----------------------------------------------------------------------------
(* The cycle.  The host (DataUpdateCoordinator) starts a refresh only when  *)
(* none is running, stores the dict the cycle returns in coordinator.data   *)
(* and sets last_update_success; when the cycle raises it leaves            *)
(* coordinator.data alone and clears last_update_success.                   *)

\* NewResult starting from the cached reading
StaleResult(cache) == IF cache = <<>> THEN EmptyDict ELSE cache[1]

\* `result: dict[str, Any] = {}`: every cycle builds its dict from nothing,
\* whatever the cache holds
NewResult(cache) == EmptyDict

Failures == {"ConfigEntryAuthFailed", "UpdateFailed", "TimeoutError",
             "JSONDecodeError", "KeyError", "AttributeError"}

urlVars == <<server_url, url_input, conn>>

\* the cycle raised exc
Retain(exc) ==
    /\ pc' = "idle"
    /\ outcome' = exc
    /\ last_update_success' = FALSE
    /\ UNCHANGED <<data, result>>

\* the cycle returned res
Publish(res) ==
    /\ pc' = "idle"
    /\ outcome' = "published"
    /\ last_update_success' = TRUE
    /\ data' = <<res>>
    /\ result' = res

StartCycle ==
    /\ pc = "idle"
    /\ pc' = "glucose"
    /\ result' = NewResult(data)
    /\ gResp' = NotRequested /\ tResp' = NotRequested /\ sResp' = NotRequested
    /\ outcome' = "running"
    /\ prevData' = data
    /\ UNCHANGED <<data, last_update_success>>
    /\ UNCHANGED urlVars
    /\ UNCHANGED <<entryVars, flowVars, built>>

FetchGlucose ==
    /\ pc = "glucose"
    /\ \E r \in GlucoseResponses :
         /\ gResp' = r
         /\ IF GlucoseStep(r, result).raise = "none"
            THEN /\ pc' = "treatments"
                 /\ result' = GlucoseStep(r, result).result
                 /\ UNCHANGED <<data, last_update_success, outcome>>
            ELSE Retain(GlucoseStep(r, result).raise)
    /\ UNCHANGED <<tResp, sResp, prevData>>
    /\ UNCHANGED urlVars
    /\ UNCHANGED <<entryVars, flowVars, built>>

FetchTreatments ==
    /\ pc = "treatments"
    /\ \E r \in TreatmentResponses :
         /\ tResp' = r
         /\ IF TreatmentStep(r, result).raise = "none"
            THEN /\ pc' = "status"
                 /\ result' = TreatmentStep(r, result).result
                 /\ UNCHANGED <<data, last_update_success, outcome>>
            ELSE Retain(TreatmentStep(r, result).raise)
    /\ UNCHANGED <<gResp, sResp, prevData>>
    /\ UNCHANGED urlVars
    /\ UNCHANGED <<entryVars, flowVars, built>>

FetchStatus ==
    /\ pc = "status"
    /\ \E r \in StatusResponses :
         /\ sResp' = r
         /\ IF StatusStep(r, result).raise = "none"
            THEN Publish(StatusStep(r, result).result)
            ELSE Retain(StatusStep(r, result).raise)
    /\ UNCHANGED <<gResp, tResp, prevData>>
    /\ UNCHANGED urlVars
    /\ UNCHANGED <<entryVars, flowVars, built>>


-----------------------------------------------------------------------------
(* Base URLs.  A URL is a sequence of characters; only '/' against any     *)
(* other character matters to the code, so "h" stands for the others.      *)

MaxUrlLen == 3

Chars == {"h", "/"}

UrlInputs == UNION {[1..n -> Chars] : n \in 0..MaxUrlLen}

\* str.endswith("/")
EndsWithSlash(url) == Len(url) > 0 /\ url[Len(url)] = "/"

\* NightscoutDataUpdateCoordinator.__init__: append '/' unless one ends the URL
NormalizeUrl(url) == IF ~EndsWithSlash(url) THEN Append(url, "/") ELSE url

\* _test_connection: "Ensure URL ends with slash"
TestBaseUrl(url) == IF ~EndsWithSlash(url) THEN Append(url, "/") ELSE url

\* number of '/' characters that end the URL
RECURSIVE TrailingSlashes(_)
TrailingSlashes(url) ==
    IF EndsWithSlash(url) THEN 1 + TrailingSlashes(SubSeq(url, 1, Len(url) - 1)) ELSE 0

cycleVars == <<data, last_update_success, pc, result, gResp, tResp, sResp, outcome, prevData>>

\* the constructor, called with the configured URL
Construct ==
    /\ \E u \in UrlInputs :
         /\ url_input' = u
         /\ server_url' = NormalizeUrl(u)
    /\ UNCHANGED conn
    /\ UNCHANGED cycleVars
    /\ UNCHANGED <<entryVars, flowVars, built>>

-----------------------------------------------------------------------------
(* config_flow.py: _test_connection.  Its result is "ok" (returns True),   *)
(* "auth" (a ClientResponseError with status 401 or 403 leaves it) or      *)
(* "ClientError" (any other failure, re-raised as aiohttp.ClientError).    *)

\* the body of a response is read only for the error excerpt of a status
\* the test rejects without raising ClientResponseError
TestResponses ==
    Raised
    \cup {Resp("none", st, "text", EmptyDict) : st \in Statuses}
    \cup {Resp("none", st, k, EmptyDict) :
            st \in Statuses \ {200, 304}, k \in {"readClientError", "readTimeout"}}

\* the status request, lines 152-168: "pass" when the test goes on
TestStatusRequest(resp) ==
    IF resp.exc # "none" THEN "ClientError"
    ELSE IF resp.status \notin {200, 304}
         THEN IF TextRaises(resp) # "none" THEN "ClientError"
              ELSE IF resp.status \in {401, 403} THEN "auth"
              ELSE "ClientError"
    ELSE "pass"

\* the entries request, lines 171-191
TestEntriesRequest(resp) ==
    IF resp.exc # "none" THEN "ClientError"
    ELSE IF resp.status \in {401, 403} THEN "auth"
    ELSE IF resp.status \notin {200, 304}
         THEN "ClientError"
    ELSE "pass"

\* the wizard tests the URL it was given
TestConnection ==
    /\ \E r1 \in TestResponses :
         IF TestStatusRequest(r1) # "pass"
         THEN conn' = [url |-> url_input, base |-> TestBaseUrl(url_input), status |-> r1,
                       entries |-> NotRequested, result |-> TestStatusRequest(r1)]
         ELSE \E r2 \in TestResponses :
                conn' = [url |-> url_input, base |-> TestBaseUrl(url_input),
                         status |-> r1, entries |-> r2,
                         result |-> IF TestEntriesRequest(r2) = "pass"
                                    THEN "ok" ELSE TestEntriesRequest(r2)]
    /\ UNCHANGED <<server_url, url_input>>
    /\ UNCHANGED cycleVars
    /\ UNCHANGED <<entryVars, flowVars, built>>

-----------------------------------------------------------------------------
(* sensor.py: NightscoutSensor.native_value for an entity of the given     *)
(* key.  coordinator.data is falsy when it is None or an empty dict; a     *)
(* subscript of a missing key raises KeyError.                             *)

KeyError == [t |-> "KeyError", n |-> 0, s |-> ""]

SensorKeys == {"sgv", "sgv_mmol", "delta", "delta_mmol", "direction"}

NativeValue(key, cache) ==
    IF key \in SensorKeys /\ cache # <<>> /\ DOMAIN cache[1] # {}
    THEN IF key \in DOMAIN cache[1] THEN cache[1][key] ELSE KeyError
    ELSE None

-----------------------------------------------------------------------------
(* __init__.py: NightscoutCoordinator._async_update_data and               *)
(* async_setup_entry.  A cycle awaits five calls of the client library in  *)
(* turn: get_sgvs (get_sgvs), get_sgvs (get_trend), get_treatments         *)
(* (get_iob), get_treatments (get_cob), get_devicestatus                   *)
(* (get_device_status).  A call returns a value, raises an                 *)
(* aiohttp.ClientError, or is cut by the 10 s async_timeout of the cycle   *)
(* ("Expired").                                                            *)

EntryIds == {"e1", "e2"}

CallOutcomes == {"value", "ClientError", "Expired"}

ApiCalls == [1..5 -> CallOutcomes]

\* the calls of get_sgvs, get_trend, get_iob and get_cob that do not return
FailingCalls(calls) == {i \in 1..4 : calls[i] # "value"}

FirstFailing(calls) == CHOOSE i \in FailingCalls(calls) : \A j \in FailingCalls(calls) : i <= j

\* NightscoutCoordinator._async_update_data: "ok" when it returns its dict,
\* else the exception that leaves it.  get_device_status catches what the
\* library raises; the cycle's timeout cancels whatever call is running.
LegacyCycle(calls) ==
    IF FailingCalls(calls) # {}
    THEN IF calls[FirstFailing(calls)] = "ClientError" THEN "UpdateFailed" ELSE "TimeoutError"
    ELSE IF calls[5] = "Expired" THEN "TimeoutError"
    ELSE "ok"

SetupResult(st, fw, r) == [stored |-> st, forwarded |-> fw, ret |-> r]

\* async_setup_entry without the test of last_update_success
SetupEntryNoCheck(first, hostRaises) ==
    IF first # "ok" /\ hostRaises
    THEN SetupResult(FALSE, FALSE, "ConfigEntryNotReady")
    ELSE SetupResult(TRUE, TRUE, "True")

\* async_setup_entry, `first` being how the first refresh cycle ended.
\* async_config_entry_first_refresh raises ConfigEntryNotReady when the
\* cycle failed; were it to return instead (hostRaises false), the test of
\* last_update_success raises it.
SetupEntry(first, hostRaises) ==
    IF first # "ok" /\ hostRaises
    THEN SetupResult(FALSE, FALSE, "ConfigEntryNotReady")
    ELSE IF first # "ok"
    THEN SetupResult(FALSE, FALSE, "ConfigEntryNotReady")
    ELSE SetupResult(TRUE, TRUE, "True")

NoSetup == [entry |-> "", calls |-> [i \in 1..5 |-> "value"], first |-> "none",
            hostRaises |-> TRUE, ret |-> "none"]

AsyncSetupEntry ==
    /\ \E e \in EntryIds \ hass_data, calls \in ApiCalls, hostRaises \in BOOLEAN :
         LET first == LegacyCycle(calls)
             res == SetupEntry(first, hostRaises)
         IN /\ setup' = [entry |-> e, calls |-> calls, first |-> first,
                         hostRaises |-> hostRaises, ret |-> res.ret]
            /\ hass_data' = IF res.stored THEN hass_data \cup {e} ELSE hass_data
            /\ forwarded' = IF res.forwarded THEN forwarded \cup {e} ELSE forwarded
    /\ UNCHANGED <<cycleVars, urlVars, flowVars, built>>

\* async_unload_entry: the coordinator is dropped when the platforms unloaded
AsyncUnloadEntry ==
    /\ \E e \in hass_data, unload_ok \in BOOLEAN :
         /\ hass_data' = IF unload_ok THEN hass_data \ {e} ELSE hass_data
         /\ forwarded' = IF unload_ok THEN forwarded \ {e} ELSE forwarded
         /\ setup' = [NoSetup EXCEPT !.entry = e,
                                      !.ret = IF unload_ok THEN "unloaded" ELSE "unload_failed"]
    /\ UNCHANGED <<cycleVars, urlVars, flowVars, built>>

-----------------------------------------------------------------------------
(* coordinator.py: _get_url, and the two URLs _test_connection builds.     *)
(* Here a URL is a sequence of fragments: single characters of the base    *)
(* URL ('?' now told apart), the fixed pieces of the endpoint paths, the   *)
(* text "token=" and the characters of the API key.  An API key that is    *)
(* None or "" is the empty sequence: the code only tests its truth.        *)

QueryChars == Chars \cup {"?"}

QueryUrlInputs == UNION {[1..n -> QueryChars] : n \in 0..MaxUrlLen}

ApiKeys == {<<>>, <<"k">>}

StatusPath == <<"api/v1/status">>
GlucosePath == <<"api/v1/entries/sgv", "?", "count=1">>
TreatmentsPath == <<"api/v1/treatments", "?", "count=1">>

Paths == {StatusPath, GlucosePath, TreatmentsPath}

\* "?" in url
HasQuery(url) == \E i \in 1..Len(url) : url[i] = "?"

\* _get_url with the two separators exchanged
GetUrlSwapped(base, key, path) ==
    IF HasQuery(base \o path)
    THEN IF key # <<>> THEN base \o path \o <<"?", "token=">> \o key ELSE base \o path
    ELSE IF key # <<>> THEN base \o path \o <<"&", "token=">> \o key ELSE base \o path

\* _get_url(path) of a coordinator with server_url = base and api_key = key
GetUrl(base, key, path) ==
    IF HasQuery(base \o path)
    THEN IF key # <<>> THEN base \o path \o <<"&", "token=">> \o key ELSE base \o path
    ELSE IF key # <<>> THEN base \o path \o <<"?", "token=">> \o key ELSE base \o path

\* _test_connection: status_url
TestStatusUrl(url, key) ==
    IF key # <<>> THEN TestBaseUrl(url) \o StatusPath \o <<"?", "token=">> \o key
    ELSE TestBaseUrl(url) \o StatusPath

\* _test_connection: entries_url
TestEntriesUrl(url, key) ==
    IF key # <<>> THEN TestBaseUrl(url) \o GlucosePath \o <<"&", "token=">> \o key
    ELSE TestBaseUrl(url) \o GlucosePath

\* a coordinator is built for a URL and a key and asked for a path's URL;
\* the connection test builds its URLs for the same URL and key
BuildUrl ==
    /\ \E u \in QueryUrlInputs, key \in ApiKeys, path \in Paths :
         built' = [input |-> u, base |-> NormalizeUrl(u), key |-> key, path |-> path,
                   url |-> GetUrl(NormalizeUrl(u), key, path),
                   status_url |-> TestStatusUrl(u, key),
                   entries_url |-> TestEntriesUrl(u, key)]
    /\ UNCHANGED <<cycleVars, urlVars, entryVars, flowVars>>

-----------------------------------------------------------------------------
(* config_flow.py: the steps of NightscoutConfigFlow.  The URL the user    *)
(* types is a sequence of fragments whose first may be a scheme; the       *)
(* stored server_url is <<>> for None and <<url>> otherwise, and so is the *)
(* stored api_key.                                                         *)

WizardInputs == { <<"h">>, <<"https://", "h">>, <<"http://", "h", "/">> }

\* server_url.startswith(("http://", "https://")), else "https://" is put first
CleanUrl(u) ==
    IF Len(u) > 0 /\ Head(u) \in {"http://", "https://"} THEN u ELSE <<"https://">> \o u

\* the result of _test_connection for the responses its two requests meet
ConnResult(r1, r2) ==
    IF TestStatusRequest(r1) # "pass" THEN TestStatusRequest(r1)
    ELSE IF TestEntriesRequest(r2) # "pass" THEN TestEntriesRequest(r2)
    ELSE "ok"

\* FormError reporting every failure of the test as cannot_connect
FormErrorCannotConnect(test) == "cannot_connect"

\* the handlers of async_step_user for what _test_connection raises:
\* ClientResponseError with 401/403, or ClientError
FormError(test) == IF test = "auth" THEN "invalid_auth" ELSE "cannot_connect"

\* async_step_user(user_input) of the flow f, the unique ids cfg being
\* configured.  _abort_if_unique_id_configured raises AbortFlow inside the
\* try block, where `except Exception` takes it for an unexpected exception.
UserStep(f, cfg, u, key, test) ==
    LET before == [server_url |-> f.server_url, api_key |-> f.api_key]
        last == [url |-> CleanUrl(u), key |-> key, test |-> test,
                 dup |-> CleanUrl(u) \in cfg, before |-> before]
    IN IF test # "ok"
       THEN [f EXCEPT !.step = "user", !.errors = FormError(test), !.last = last]
       ELSE IF CleanUrl(u) \in cfg
       THEN [f EXCEPT !.step = "user", !.errors = "unknown", !.last = last,
                      !.server_url = <<CleanUrl(u)>>, !.api_key = <<key>>]
       ELSE [f EXCEPT !.step = "sensors", !.errors = "", !.last = last,
                      !.server_url = <<CleanUrl(u)>>, !.api_key = <<key>>]

NoLast == [url |-> <<>>, key |-> <<>>, test |-> "none", dup |-> FALSE,
           before |-> [server_url |-> <<>>, api_key |-> <<>>]]

\* NightscoutConfigFlow.__init__ and the first display of the user form
NoFlow == [step |-> "user", server_url |-> <<>>, api_key |-> <<>>, errors |-> "",
           last |-> NoLast, entry |-> <<>>, created_dup |-> FALSE]

\* a new flow is started
StartFlow ==
    /\ flow' = NoFlow
    /\ UNCHANGED configured
    /\ UNCHANGED <<cycleVars, urlVars, entryVars, built>>

\* the user form is submitted
StepUser ==
    /\ flow.step = "user"
    /\ \E u \in WizardInputs, key \in ApiKeys, r1 \in TestResponses :
         IF TestStatusRequest(r1) # "pass"
         THEN /\ conn' = [url |-> CleanUrl(u), base |-> TestBaseUrl(CleanUrl(u)),
                          status |-> r1, entries |-> NotRequested,
                          result |-> ConnResult(r1, NotRequested)]
              /\ flow' = UserStep(flow, configured, u, key, ConnResult(r1, NotRequested))
         ELSE \E r2 \in TestResponses :
              /\ conn' = [url |-> CleanUrl(u), base |-> TestBaseUrl(CleanUrl(u)),
                          status |-> r1, entries |-> r2, result |-> ConnResult(r1, r2)]
              /\ flow' = UserStep(flow, configured, u, key, ConnResult(r1, r2))
    /\ UNCHANGED <<configured, server_url, url_input>>
    /\ UNCHANGED <<cycleVars, entryVars, built>>

\* the sensors form is submitted: async_step_sensors creates the entry, whose
\* unique id is the one async_step_user set
StepSensors ==
    /\ flow.step = "sensors"
    /\ flow' = [flow EXCEPT !.step = "created",
                            !.entry = <<[server |-> flow.server_url, api_key |-> flow.api_key]>>,
                            !.created_dup = (flow.last.url \in configured)]
    /\ configured' = configured \cup {flow.last.url}
    /\ UNCHANGED <<cycleVars, urlVars, entryVars, built>>

NoBuilt == [input |-> <<>>, base |-> <<"/">>, key |-> <<>>, path |-> StatusPath,
            url |-> <<"/">> \o StatusPath,
            status_url |-> <<"/">> \o StatusPath,
            entries_url |-> <<"/">> \o GlucosePath]

NoConn == [url |-> <<>>, base |-> <<>>, status |-> NotRequested, entries |-> NotRequested,
           result |-> "none"]

Init ==
    /\ data = <<>>
    /\ last_update_success = TRUE
    /\ pc = "idle"
    /\ result = EmptyDict
    /\ gResp = NotRequested /\ tResp = NotRequested /\ sResp = NotRequested
    /\ outcome = "none"
    /\ prevData = <<>>
    /\ server_url = <<"/">>
    /\ url_input = <<>>
    /\ conn = NoConn
    /\ hass_data = {}
    /\ forwarded = {}
    /\ setup = NoSetup
    /\ flow = NoFlow
    /\ configured = {}
    /\ built = NoBuilt

Next == StartCycle \/ FetchGlucose \/ FetchTreatments \/ FetchStatus

Spec == Init /\ [][Next]_vars

\* constructing the coordinator and testing a connection in the wizard
NextSetup == Construct \/ TestConnection

SpecSetup == Init /\ [][NextSetup]_vars

\* building endpoint URLs
NextUrl == BuildUrl

SpecUrl == Init /\ [][NextUrl]_vars

\* the setup wizard
NextFlow == StartFlow \/ StepUser \/ StepSensors

SpecFlow == Init /\ [][NextFlow]_vars

\* setting up and unloading config entries
NextEntry == AsyncSetupEntry \/ AsyncUnloadEntry

SpecEntry == Init /\ [][NextEntry]_vars

TypeOK ==
    /\ pc \in {"idle", "glucose", "treatments", "status"}
    /\ outcome \in Failures \cup {"none", "running", "published"}
    /\ Len(data) <= 1

-----------------------------------------------------------------------------
(* Properties of the refresh cycle *)

\* a cycle has run to its end and none is running
CycleDone == pc = "idle" /\ outcome # "none"

PublishedCycle == pc = "idle" /\ outcome = "published"

\* the endpoint answered 200 with a body of the expected shape
GlucoseSucceeded ==
    gResp.exc = "none" /\ gResp.status = 200 /\ gResp.kind \in {"list", "emptylist"}
TreatmentSucceeded ==
    tResp.exc = "none" /\ tResp.status = 200 /\ tResp.kind \in {"list", "emptylist"}
StatusSucceeded ==
    sResp.exc = "none" /\ sResp.status = 200 /\ sResp.kind = "object"

GlucoseKeys == {"GLUCOSE_VALUE", "TIME_VALUE", "TREND_VALUE"}
TreatmentKeys == {"IOB_VALUE", "COB_VALUE", "BASAL_VALUE"}

\* C1: when the glucose endpoint answers 401 or 403 the cycle ends as
\* ConfigEntryAuthFailed, which no other response produces; the cycle is
\* reported as failed, no later request is made, nothing is returned and
\* coordinator.data is what it was before the cycle.
C1_AuthFailureRetainsCache ==
    /\ (pc = "idle" /\ gResp.exc = "none" /\ gResp.status \in {401, 403})
         => /\ outcome = "ConfigEntryAuthFailed"
            /\ ~last_update_success
            /\ data = prevData
    /\ (pc = "idle" /\ outcome = "ConfigEntryAuthFailed")
         => (gResp.exc = "none" /\ gResp.status \in {401, 403})

\* a reading is cached, and a cycle whose glucose request met a 403 has
\* ended as an authentication failure
C1_Witness ==
    /\ pc = "idle" /\ gResp.exc = "none" /\ gResp.status = 403
    /\ outcome = "ConfigEntryAuthFailed"
    /\ data # <<>> /\ data = prevData

\* C2 (as claimed): a cycle whose glucose endpoint succeeded ends by
\* publishing a reading, whatever the best-effort endpoints met.
C2_BestEffortNeverAborts ==
    (CycleDone /\ GlucoseSucceeded) => (outcome = "published" /\ last_update_success)

\* C3: in the reading a cycle publishes, the fields of a best-effort endpoint
\* that did not succeed are absent, whatever the cache held before, and the
\* glucose fields are the ones of this cycle's glucose response.
C3_DegradedFieldsAbsent ==
    PublishedCycle =>
        /\ data # <<>>
        /\ ~TreatmentSucceeded => (DOMAIN data[1]) \cap TreatmentKeys = {}
        /\ ~StatusSucceeded => "ALARM_VALUE" \notin DOMAIN data[1]
        /\ gResp.kind = "list" =>
             /\ GlucoseKeys \subseteq DOMAIN data[1]
             /\ data[1]["GLUCOSE_VALUE"] = Get(gResp.first, "sgv")
             /\ data[1]["TIME_VALUE"] = Get(gResp.first, "dateString")
             /\ data[1]["TREND_VALUE"] = Get(gResp.first, "direction")
        /\ gResp.kind # "list" => (DOMAIN data[1]) \cap GlucoseKeys = {}

\* the cache held insulin-on-board and another glucose value; the treatment
\* endpoint then failed and the published reading has this cycle's glucose
\* and no insulin-on-board
C3_Witness ==
    /\ PublishedCycle /\ ~TreatmentSucceeded /\ tResp.status = 500
    /\ prevData # <<>> /\ data # <<>>
    /\ "IOB_VALUE" \in DOMAIN prevData[1]
    /\ "IOB_VALUE" \notin DOMAIN data[1]
    /\ Get(prevData[1], "GLUCOSE_VALUE") = Num(90)
    /\ Get(data[1], "GLUCOSE_VALUE") = Num(108)

\* the glucose request failed, and not by an authentication status
GlucoseNonAuthFailure ==
    \/ gResp.exc \in {"ClientError", "TimeoutError"}
    \/ gResp.exc = "none" /\ gResp.status = 500
    \/ gResp.exc = "none" /\ gResp.status = 200
         /\ gResp.kind \in BadBodies \cup {"object", "scalarlist"}

GlucoseTimeoutOutsideParse ==
    \/ gResp.exc = "TimeoutError"
    \/ gResp.exc = "none" /\ gResp.status \notin {200, 401, 403} /\ gResp.kind = "readTimeout"

C5_EmptyArrayPublishes ==
    (CycleDone /\ GlucoseSucceeded /\ gResp.kind = "emptylist") =>
        /\ outcome = "published"
        /\ data # <<>>
        /\ (DOMAIN data[1]) \cap GlucoseKeys = {}

\* the classification the specification gives for an HTTP status
ExpectedClass(st) ==
    IF st \in {401, 403} THEN "auth"
    ELSE IF (st >= 200 /\ st <= 299) \/ st = 304 THEN "ok"
    ELSE "connectivity"

\* what the cycle made of the status of its glucose response
GlucoseClass ==
    IF outcome = "ConfigEntryAuthFailed" THEN "auth"
    ELSE IF pc = "treatments" \/ tResp # NotRequested THEN "ok"
    ELSE "connectivity"

\* C6 (as claimed): the glucose request treats 401/403 as an authentication
\* failure, every 2xx status and 304 as no failure, every other status as a
\* connectivity failure (responses whose body reads and parses).
C6_StatusClassification ==
    (pc \in {"idle", "treatments"} /\ gResp.exc = "none"
        /\ gResp.kind \in {"", "text", "list", "emptylist"})
      => GlucoseClass = ExpectedClass(gResp.status)

\* C7 (as claimed): the base URL endpoint paths are appended to ends with
\* exactly one '/', in the coordinator and in the connection test.
C7_ExactlyOneTrailingSlash ==
    /\ TrailingSlashes(server_url) = 1
    /\ conn.result # "none" => TrailingSlashes(conn.base) = 1

\* C8: when the status endpoint answers 200 with a JSON object the cycle
\* publishes a reading whose alarm flag is true if the object's status field
\* is "warn" and false for any other or a missing status field; a published
\* reading has no alarm flag exactly when the status endpoint did not succeed.
C8_AlarmFlag ==
    /\ (pc = "idle" /\ StatusSucceeded) =>
          /\ PublishedCycle
          /\ "ALARM_VALUE" \in DOMAIN data[1]
          /\ data[1]["ALARM_VALUE"] =
                (IF "status" \in DOMAIN sResp.first /\ sResp.first["status"] = Str("warn")
                 THEN Bool(TRUE) ELSE Bool(FALSE))
    /\ PublishedCycle => ("ALARM_VALUE" \notin DOMAIN data[1] <=> ~StatusSucceeded)

\* a reading with the alarm raised by a "warn" status has been published
C8_Witness ==
    /\ PublishedCycle /\ StatusSucceeded
    /\ Get(sResp.first, "status") = Str("warn")
    /\ Get(data[1], "ALARM_VALUE") = Bool(TRUE)

\* C9 (as claimed): when a cycle has finished, each of its endpoints has
\* been requested, whatever the other requests met.
C9_EveryEndpointRequested ==
    CycleDone => (gResp # NotRequested /\ tResp # NotRequested /\ sResp # NotRequested)

Present(v) == v.t = "num"

\* C10 (as claimed): in the reading the sensors read, the mg/dL and mmol/L
\* glucose are both present or both absent, the mmol/L value being the mg/dL
\* value divided by 18, and likewise the two deltas are both present or both
\* absent.
C10_UnitPairs ==
    data # <<>> =>
        /\ Present(Get(data[1], "GLUCOSE_VALUE")) <=> Present(NativeValue("sgv_mmol", data))
        /\ Present(Get(data[1], "GLUCOSE_VALUE")) =>
              18 * NativeValue("sgv_mmol", data).n = Get(data[1], "GLUCOSE_VALUE").n
        /\ Present(NativeValue("delta", data)) <=> Present(NativeValue("delta_mmol", data))

-----------------------------------------------------------------------------
(* Properties of async_setup_entry *)

\* C11: when the first refresh cycle of an entry failed, async_setup_entry
\* ends with the setup error ConfigEntryNotReady, stores no coordinator for
\* the entry, forwards nothing to the sensor platform and does not return
\* True; a coordinator is stored and the sensors are set up only for an
\* entry whose last setup ran a successful first refresh and returned True.
C11_FailedFirstRefreshFailsSetup ==
    /\ []((setup.first \notin {"none", "ok"}) =>
            (/\ setup.ret = "ConfigEntryNotReady"
             /\ setup.entry \notin hass_data
             /\ setup.entry \notin forwarded))
    /\ []((setup.ret = "True") => (setup.first = "ok" /\ setup.entry \in hass_data))
    /\ [](forwarded = hass_data)
    /\ [][\A e \in EntryIds :
             (e \in hass_data' \ hass_data \/ e \in forwarded' \ forwarded)
                => (setup'.entry = e /\ setup'.first = "ok" /\ setup'.ret = "True")]_vars

\* one entry is set up, and the setup of the other has just failed on a
\* first refresh the host returned from without raising
C11_Witness ==
    /\ setup.entry = "e2" /\ setup.first = "UpdateFailed" /\ ~setup.hostRaises
    /\ setup.ret = "ConfigEntryNotReady"
    /\ hass_data = {"e1"} /\ forwarded = {"e1"}

-----------------------------------------------------------------------------
(* Properties of _get_url *)

\* how many fragments of url are the text "token="
RECURSIVE TokenCount(_)
TokenCount(url) ==
    IF url = <<>> THEN 0
    ELSE (IF Head(url) = "token=" THEN 1 ELSE 0) + TokenCount(Tail(url))

\* url ends with the fragments of tail
EndsWith(url, tail) ==
    Len(url) >= Len(tail) /\ SubSeq(url, Len(url) - Len(tail) + 1, Len(url)) = tail

\* C12 (as claimed): without a key _get_url returns base+path; with a key it
\* appends one token parameter, introduced by '&' if the path contains '?'
\* and by '?' otherwise; for the status and glucose paths the result is the
\* URL the connection test builds for the same base URL and key.
C12_TokenSeparatorByPath ==
    /\ built.key = <<>> => built.url = built.base \o built.path
    /\ built.key # <<>> =>
         /\ TokenCount(built.url) = TokenCount(built.base \o built.path) + 1
         /\ EndsWith(built.url, <<(IF HasQuery(built.path) THEN "&" ELSE "?"), "token=">>
                                   \o built.key)
    /\ built.path = StatusPath => built.url = built.status_url
    /\ built.path = GlucosePath => built.url = built.entries_url

\* C12 (amended): without a key _get_url returns base+path; with a key it
\* returns base+path followed by one token parameter, introduced by '&' if
\* base+path contains '?' and by '?' otherwise; for the glucose path the
\* result is the URL the connection test builds, and for the status path it
\* is that URL exactly when no key is configured or the base URL has no '?'.
C12_TokenSeparatorByUrl ==
    /\ built.key = <<>> => built.url = built.base \o built.path
    /\ built.key # <<>> =>
         /\ TokenCount(built.url) = TokenCount(built.base \o built.path) + 1
         /\ Len(built.url) = Len(built.base) + Len(built.path) + 2 + Len(built.key)
         /\ SubSeq(built.url, 1, Len(built.base) + Len(built.path)) = built.base \o built.path
         /\ EndsWith(built.url,
                     <<(IF HasQuery(built.base \o built.path) THEN "&" ELSE "?"), "token=">>
                        \o built.key)
    /\ built.path = GlucosePath => built.url = built.entries_url
    /\ built.path = StatusPath =>
         (built.url = built.status_url <=> (built.key = <<>> \/ ~HasQuery(built.base)))

\* the key is appended with '&' to a status URL whose base URL holds a '?'
C12_Witness ==
    /\ built.path = StatusPath /\ built.key = <<"k">> /\ HasQuery(built.base)
    /\ built.url = built.base \o StatusPath \o <<"&", "token=", "k">>
    /\ built.url # built.status_url


-----------------------------------------------------------------------------
(* Properties of the setup wizard *)

\* the user form was submitted and its connection test failed
TestFailed == flow.last.test \in {"auth", "ClientError"}

\* the endpoint answered with HTTP 401 or 403
Answered401Or403(resp) == resp.exc = "none" /\ resp.status \in {401, 403}

\* the form is shown again with the one error e
FormReshown(e) == flow.step = "user" /\ flow.errors = e

\* C13 as stated: every failing connection test re-shows the user form with
\* one error, which is invalid_auth if and only if the status or the entries
\* endpoint answered 401 or 403 and cannot_connect otherwise; it is never
\* unknown and the flow never goes on to the sensors step.
C13_InvalidAuthIffAnswered401 ==
    TestFailed =>
        FormReshown(IF Answered401Or403(conn.status) \/ Answered401Or403(conn.entries)
                    THEN "invalid_auth" ELSE "cannot_connect")

\* C13, amended: every failing connection test re-shows the user form with
\* one error, never unknown, and never goes on to the sensors step.  The
\* error is invalid_auth if and only if the status endpoint answered 401 or
\* 403 and its error body could be read, or the status endpoint answered 200
\* or 304 and the entries endpoint answered 401 or 403; it is cannot_connect
\* for every other failure, a 401 or 403 of the status endpoint whose error
\* body cannot be read included.
C13_InvalidAuthIffAuthErrorRaised ==
    TestFailed =>
        /\ flow.step = "user"
        /\ flow.errors \in {"invalid_auth", "cannot_connect"}
        /\ flow.errors = "invalid_auth" <=>
             \/ Answered401Or403(conn.status) /\ TextRaises(conn.status) = "none"
             \/ /\ conn.status.exc = "none" /\ conn.status.status \in {200, 304}
                /\ Answered401Or403(conn.entries)

C13_Witness ==
    /\ TestFailed
    /\ Answered401Or403(conn.status)
    /\ TextRaises(conn.status) # "none"
    /\ FormReshown("cannot_connect")

C13_WitnessAuth ==
    /\ TestFailed
    /\ conn.status.status = 200
    /\ Answered401Or403(conn.entries)
    /\ FormReshown("invalid_auth")

\* the scheme the stored URL starts with
HasScheme(url) == Len(url) > 0 /\ Head(url) \in {"http://", "https://"}

\* C14: an entry is created only after a connection test passed earlier in
\* the same flow: when the sensors step creates the entry, the stored server
\* URL is set, starts with http:// or https://, and is the URL that passed
\* the test, with the API key that was tested; and a user step that ends in
\* an error leaves the stored server URL and API key as they were.
C14_EntryOnlyAfterPassedTest ==
    /\ flow.step = "created" =>
         /\ flow.last.test = "ok"
         /\ flow.entry # <<>>
         /\ flow.entry[1].server # <<>>
         /\ HasScheme(flow.entry[1].server[1])
         /\ flow.entry[1].server = <<flow.last.url>>
         /\ flow.entry[1].api_key = <<flow.last.key>>
    /\ (flow.step = "user" /\ flow.errors # "") =>
         /\ flow.server_url = flow.last.before.server_url
         /\ flow.api_key = flow.last.before.api_key

\* C15: a user step submitted with an already configured server URL whose
\* connection test passes ends the flow by aborting; the abort is not turned
\* into a re-shown form with the error unknown, and no second entry for the
\* same server URL is created.
C15_DuplicateAborts ==
    /\ (flow.last.test = "ok" /\ flow.last.dup) =>
         (flow.step = "aborted" /\ ~FormReshown("unknown"))
    /\ flow.step = "created" => ~flow.created_dup

====
